---- MODULE Spec2Model ----
(***************************************************************************)
(* Device session orchestration of gadb (src/device.go): every device      *)
(* operation opens a Transport, selects the device with                    *)
(* host:transport:<serial>, performs its exchange and returns.             *)
(*                                                                         *)
(* The Transport and syncTransport types are not part of src/; their       *)
(* operations are modelled from sections 4.1 and 4.2 of the specification. *)
(* The peer (the ADB server) is the environment: every read or write on a  *)
(* Connection draws the peer's answer from the answers the wire allows.    *)
(***************************************************************************)
EXTENDS Integers, Sequences, FiniteSets, TLC

\* ------------------------------------------------------------- bounds
\* Longest source byte sequence pushed.
MaxLen == 3
\* Largest DATA payload of one sync frame (the protocol's chunk size, scaled).
MaxChunk == 2
\* Longest directory listing the peer emits.
MaxEntries == 2

\* ------------------------------------------------------------- constants
DefaultFileMode == 436

Procs == {1, 2}
Bytes == {0, 1}
Serial == "emu-5554"
RemotePath == "/data/local/tmp/f"
Reasons == {"nope", "closed"}
ShellCmds == {"ls"}
\* Texts are sequences of characters where the program looks inside them.
Whitespace == {" ", "\t"}
CmdTexts == {<<>>, <<" ">>, <<"l", "s">>}
ArgLists == {<<>>, <<<<>>>>, <<<<"\t">>>>, <<<<"-", "l">>, <<>>>>}
Replies == {<<>>, <<0, 1>>}

\* A 64-bit second count is kept as two limbs, value = hi * 2^16 + lo, so that
\* the 32-bit wrap of uint32() stays inside TLC's integers.
Limb == 2 ^ 16
TimeHis == {-1, 0, Limb}
TimeLos == {7}
TimeNsecs == {500}
Times == [hi : TimeHis, lo : TimeLos, nsec : TimeNsecs]
Modes == {<<>>, <<420>>}

RECURSIVE SeqsUpTo(_, _)
SeqsUpTo(S, n) ==
    IF n = 0 THEN {<<>>}
    ELSE LET shorter == SeqsUpTo(S, n - 1)
         IN  shorter \cup {Append(s, x) : s \in {t \in shorter : Len(t) = n - 1}, x \in S}

Sources == SeqsUpTo(Bytes, MaxLen)

\* ------------------------------------------------------------- errors
NoErr == [kind |-> "nil", reason |-> ""]
ConnectionError == [kind |-> "ConnectionError", reason |-> ""]
IOError == [kind |-> "IOError", reason |-> ""]
ProtocolError == [kind |-> "ProtocolError", reason |-> ""]
RemoteRejection(r) == [kind |-> "RemoteRejection", reason |-> r]
IsErr(e) == e.kind # "nil"

\* The reply texts and errors a get-state query of the Client can return.
StateReplies == {"", "device", "offline", "bootloader"}
QueryErrs == {NoErr, ConnectionError} \cup {RemoteRejection(r) : r \in Reasons}

\* ------------------------------------------------------------- time
\* time.Time.Unix(): the whole seconds since the epoch; the nanoseconds are dropped.
TimeUnix(t) == [hi |-> t.hi, lo |-> t.lo]
\* uint32(x) of a 64-bit integer: reduction modulo 2^32.
Uint32(x) == [hi |-> x.hi % Limb, lo |-> x.lo]
\* time.Time{} and time.Unix(sec, 0).
ZeroTime == [zero |-> TRUE, unix |-> 0]
UnixTime(sec) == [zero |-> FALSE, unix |-> sec]

\* ------------------------------------------------------------- directory entries
\* DENT payloads the peer can emit: mode, size, mtime, name.
Dents ==
    { [mode |-> 0, size |-> 0, mtime |-> 0, name |-> ""],
      [mode |-> 16384 + 493, size |-> 0, mtime |-> 5, name |-> "d"],
      [mode |-> 2147483647 - 16384, size |-> 0, mtime |-> 7, name |-> "x"] }

\* DeviceFileInfo{}: the zero value of the struct.
ZeroFileInfo == [Name |-> "", Mode |-> 0, Size |-> 0, LastModified |-> ZeroTime]
Listings == SeqsUpTo(Dents, MaxEntries)
DecodeDent(d) ==
    [Name |-> d.name, Mode |-> d.mode, Size |-> d.size, LastModified |-> UnixTime(d.mtime)]

\* ------------------------------------------------------------- state
VARIABLES
    active,        \* the processes that run device operations
    pc,            \* each process's position in its operation
    op,            \* the operation a process runs
    arg,           \* the operation's arguments
    tp,            \* the local variable tp: "nil" or "set"
    conn,          \* the Connection the running operation opened
    devFileInfos,  \* List's result slice
    cursor,        \* how many frames of its listing the peer has delivered to this List
    dest,          \* the bytes Pull wrote to dest
    ret,           \* the values the operation returned
    peerFile       \* the file the peer stores at RemotePath

vars == <<active, pc, op, arg, tp, conn, devFileInfos, cursor, dest, ret, peerFile>>

\* No Connection yet. owner is the process whose operation opened the
\* Connection, users the processes whose operations called it, opens the number
\* of Connections the running operation has opened, inbound the bytes the peer
\* sent that no read has consumed, reader the caller's line read on the socket.
NoConn == [state |-> "none", mode |-> "host", pending |-> FALSE, log |-> <<>>,
           owner |-> 0, users |-> {}, opens |-> 0, inbound |-> <<>>, reader |-> "none"]
NoArg == [none |-> TRUE]
NoRet == [err |-> NoErr, rawNil |-> TRUE, raw |-> <<>>, entriesNil |-> TRUE,
          entries |-> <<>>, tp |-> FALSE, state |-> "", isDir |-> <<>>]
NoFile == [exists |-> FALSE, data |-> <<>>, mtime |-> [hi |-> 0, lo |-> 0],
           acked |-> FALSE, srcData |-> <<>>, srcTime |-> [hi |-> 0, lo |-> 0, nsec |-> 0]]

Init ==
    /\ active = {1}
    /\ pc = [p \in Procs |-> "idle"]
    /\ op = [p \in Procs |-> "none"]
    /\ arg = [p \in Procs |-> NoArg]
    /\ tp = [p \in Procs |-> "nil"]
    /\ conn = [p \in Procs |-> NoConn]
    /\ devFileInfos = [p \in Procs |-> <<>>]
    /\ cursor = [p \in Procs |-> 0]
    /\ dest = [p \in Procs |-> <<>>]
    /\ ret = [p \in Procs |-> NoRet]
    /\ peerFile = NoFile


\* ------------------------------------------------------------- Host Transport
\* One call on a Connection, as the log keeps it: the mode and the in-flight
\* flag are the Connection's at the moment of the call.
Entry(c, call, a, ok, by) ==
    [call |-> call, arg |-> a, ok |-> ok, mode |-> c.mode, pending |-> c.pending, by |-> by,
     reason |-> "", read |-> 0]

\* NewTransport(address): a fresh open Connection, nothing exchanged yet.
NewTransport == [NoConn EXCEPT !.state = "open"]

\* tp.Send(text): one length-framed command; once written its status is awaited.
Send(c, text, ok) ==
    [c EXCEPT !.log = Append(@, Entry(c, "Send", text, ok, "op")),
              !.pending = @ \/ ok]

\* The 4-byte status the peer answers with: OKAY, FAIL and a reason, any other
\* four bytes, or a closed socket.
Responses ==
    {[status |-> "OKAY", reason |-> ""], [status |-> "EOF", reason |-> ""],
     [status |-> "BAD", reason |-> ""]}
    \cup {[status |-> "FAIL", reason |-> r] : r \in Reasons}

\* The bytes of a reason text, and the text of its bytes.
ReasonBytes(r) ==
    CASE r = "nope" -> <<110, 111, 112, 101>>
      [] r = "closed" -> <<99, 108, 111, 115, 101, 100>>
      [] OTHER -> <<>>
ReasonText(b) ==
    IF \E r \in Reasons : ReasonBytes(r) = b
    THEN CHOOSE r \in Reasons : ReasonBytes(r) = b
    ELSE ""

\* Four hexadecimal digits, as the length prefix of a message is written.
HexDigit(d) == IF d < 10 THEN 48 + d ELSE 87 + d
HexValue(b) == IF b >= 97 THEN b - 87 ELSE b - 48
Hex4(n) == <<HexDigit((n \div 4096) % 16), HexDigit((n \div 256) % 16),
             HexDigit((n \div 16) % 16), HexDigit(n % 16)>>
Hex4Value(b) == HexValue(b[1]) * 4096 + HexValue(b[2]) * 256 + HexValue(b[3]) * 16 + HexValue(b[4])

\* The status words on the wire.
OKAY == <<79, 75, 65, 89>>
FAIL == <<70, 65, 73, 76>>
STAT == <<83, 84, 65, 84>>

\* What the peer writes for an answer: "OKAY", "FAIL" + length + reason, four
\* other bytes, or nothing before it closes.
Wire(resp) ==
    CASE resp.status = "OKAY" -> OKAY
      [] resp.status = "FAIL" -> FAIL \o Hex4(Len(ReasonBytes(resp.reason))) \o ReasonBytes(resp.reason)
      [] resp.status = "BAD" -> STAT
      [] OTHER -> <<>>

\* Reading a status off the wire with the length field read behind OKAY as it
\* is behind FAIL.
ReadStatus_LengthAlways(wire) ==
    IF Len(wire) < 4 THEN [status |-> "EOF", reason |-> "", read |-> Len(wire)]
    ELSE IF SubSeq(wire, 1, 4) = OKAY
         THEN [status |-> "OKAY", reason |-> "", read |-> IF Len(wire) < 8 THEN Len(wire) ELSE 8]
    ELSE IF SubSeq(wire, 1, 4) = FAIL
         THEN IF Len(wire) < 8 \/ Len(wire) < 8 + Hex4Value(SubSeq(wire, 5, 8))
              THEN [status |-> "EOF", reason |-> "", read |-> Len(wire)]
              ELSE LET n == Hex4Value(SubSeq(wire, 5, 8))
                   IN  [status |-> "FAIL", reason |-> ReasonText(SubSeq(wire, 9, 8 + n)),
                        read |-> 8 + n]
    ELSE [status |-> "BAD", reason |-> "", read |-> 4]

\* Reading a status off the wire: 4 bytes; after FAIL a 4-digit length and that
\* many bytes of reason. read is the number of bytes consumed.
ReadStatus(wire) ==
    IF Len(wire) < 4 THEN [status |-> "EOF", reason |-> "", read |-> Len(wire)]
    ELSE IF SubSeq(wire, 1, 4) = OKAY THEN [status |-> "OKAY", reason |-> "", read |-> 4]
    ELSE IF SubSeq(wire, 1, 4) = FAIL
         THEN IF Len(wire) < 8 \/ Len(wire) < 8 + Hex4Value(SubSeq(wire, 5, 8))
              THEN [status |-> "EOF", reason |-> "", read |-> Len(wire)]
              ELSE LET n == Hex4Value(SubSeq(wire, 5, 8))
                   IN  [status |-> "FAIL", reason |-> ReasonText(SubSeq(wire, 9, 8 + n)),
                        read |-> 8 + n]
    ELSE [status |-> "BAD", reason |-> "", read |-> 4]

StatusErr(resp) ==
    LET r == ReadStatus(Wire(resp))
    IN  CASE r.status = "OKAY" -> NoErr
          [] r.status = "FAIL" -> RemoteRejection(r.reason)
          [] r.status = "EOF" -> IOError
          [] OTHER -> ProtocolError

\* tp.VerifyResponse(): reads the status of the command in flight. resp is the
\* answer the peer wrote, in front of whatever it sends behind it.
VerifyResponse(c, resp) ==
    LET wire == Wire(resp) \o c.inbound
        r == ReadStatus(wire)
    IN  [c EXCEPT !.log = Append(@, [Entry(c, "VerifyResponse", r.status, r.status = "OKAY", "op")
                                     EXCEPT !.reason = r.reason, !.read = r.read]),
                  !.pending = IF r.status \in {"OKAY", "FAIL"} THEN FALSE ELSE @,
                  !.inbound = SubSeq(wire, r.read + 1, Len(wire))]

\* tp.ReadBytesAll(): reads until the peer closes; n bytes were read when the
\* read ended.
ReadBytesAll(c, n, ok) ==
    [c EXCEPT !.log = Append(@, [Entry(c, "ReadBytesAll", "", ok, "op") EXCEPT !.read = n]),
              !.inbound = SubSeq(@, n + 1, Len(@))]

\* tp.Close(): releases the socket, and with it what was not read; idempotent.
Close(c, by) ==
    [c EXCEPT !.log = Append(@, Entry(c, "Close", "", TRUE, by)),
              !.state = "closed", !.inbound = <<>>]

\* ------------------------------------------------------------- plumbing
ErrRet(err) == [NoRet EXCEPT !.err = err]

\* Connection c after the operation of process p has called it.
UsedBy(p, c) == IF c.state = "none" THEN c ELSE [c EXCEPT !.users = @ \cup {p}]

\* The operation goes on to label l with Connection c.
Goto(p, c, l) ==
    /\ conn' = [conn EXCEPT ![p] = UsedBy(p, c)]
    /\ pc' = [pc EXCEPT ![p] = l]
    /\ UNCHANGED ret

\* The operation returns r, leaving Connection c behind.
Return(p, c, r) ==
    /\ conn' = [conn EXCEPT ![p] = UsedBy(p, c)]
    /\ pc' = [pc EXCEPT ![p] = "done"]
    /\ ret' = [ret EXCEPT ![p] = r]

\* ------------------------------------------------------------- calls
Start(p, o, a) ==
    /\ op' = [op EXCEPT ![p] = o]
    /\ arg' = [arg EXCEPT ![p] = a]
    /\ pc' = [pc EXCEPT ![p] = "cdt_open"]
    /\ UNCHANGED <<active, tp, conn, devFileInfos, cursor, dest, ret, peerFile>>

\* EnableAdbOverTCP passes onlyVerifyResponse = true, RunShellCommandWithBytes nothing.
CallExecuteCommand(p) ==
    /\ p \in active /\ pc[p] = "idle"
    /\ \E a \in {[command |-> <<"shell:", c>>, onlyVerifyResponse |-> <<>>, reply |-> <<>>] :
                    c \in ShellCmds}
                \cup {[command |-> <<"tcpip:", "5555">>, onlyVerifyResponse |-> <<TRUE>>,
                       reply |-> <<>>]} :
        Start(p, "executeCommand", a)

\* strings.Join(args, " ") on texts kept as sequences of characters.
RECURSIVE JoinArgs(_)
JoinArgs(args) ==
    IF Len(args) = 0 THEN <<>>
    ELSE IF Len(args) = 1 THEN args[1]
    ELSE args[1] \o <<" ">> \o JoinArgs(Tail(args))

\* if len(args) > 0 { cmd = fmt.Sprintf("%s %s", cmd, strings.Join(args, " ")) }
Joined(cmd, args) == IF Len(args) > 0 THEN cmd \o <<" ">> \o JoinArgs(args) ELSE cmd

\* strings.TrimSpace: the text without its leading and trailing white space.
RECURSIVE TrimSpace(_)
TrimSpace(t) ==
    IF Len(t) = 0 THEN t
    ELSE IF t[1] \in Whitespace THEN TrimSpace(Tail(t))
    ELSE IF t[Len(t)] \in Whitespace THEN TrimSpace(SubSeq(t, 1, Len(t) - 1))
    ELSE t

\* A check for the empty text that does not trim.
EmptyCommand_NoTrim(t) == Len(t) = 0

\* strings.TrimSpace(cmd) == ""
EmptyCommand(t) == TrimSpace(t) = <<>>

\* errors.New("adb shell: command cannot be empty")
EmptyCommandError == [kind |-> "EmptyCommand", reason |-> "adb shell: command cannot be empty"]

\* RunShellCommandWithBytes(cmd, args...): the joined command is refused when it
\* is blank, and is otherwise handed to executeCommand behind "shell:".
CallRunShellCommandWithBytes(p) ==
    /\ p \in active /\ pc[p] = "idle"
    /\ \E cmd \in CmdTexts, args \in ArgLists :
        LET a == [command |-> <<"shell:">> \o Joined(cmd, args), onlyVerifyResponse |-> <<>>,
                  reply |-> <<>>, cmd |-> cmd, args |-> args]
        IN  IF EmptyCommand(Joined(cmd, args))
            THEN /\ op' = [op EXCEPT ![p] = "RunShellCommandWithBytes"]
                 /\ arg' = [arg EXCEPT ![p] = a]
                 /\ pc' = [pc EXCEPT ![p] = "done"]
                 /\ ret' = [ret EXCEPT ![p] = ErrRet(EmptyCommandError)]
                 /\ UNCHANGED <<active, tp, conn, devFileInfos, cursor, dest, peerFile>>
            ELSE Start(p, "RunShellCommandWithBytes", a)

\* The DeviceState constants and the table deviceStateStrings.
StateUnknown == "UNKNOWN"
StateOnline == "online"
StateOffline == "offline"
StateDisconnected == "disconnected"
deviceStateStrings ==
    [k \in {"", "offline", "device"} |->
        CASE k = "" -> StateDisconnected
          [] k = "offline" -> StateOffline
          [] OTHER -> StateOnline]

\* deviceStateConv(k): the table's entry, StateUnknown for a key it lacks.
deviceStateConv(k) ==
    IF k \in DOMAIN deviceStateStrings THEN deviceStateStrings[k] ELSE StateUnknown

\* A State that gives up on the reply when the query failed.
State_UnknownOnError(resp, err) ==
    [NoRet EXCEPT !.state = IF IsErr(err) THEN StateUnknown ELSE deviceStateConv(resp),
                  !.err = err]

\* return deviceStateConv(resp), err
State(resp, err) == [NoRet EXCEPT !.state = deviceStateConv(resp), !.err = err]

\* d.State(): resp and err are what the Client's get-state query returned.
CallState(p) ==
    /\ p \in active /\ pc[p] = "idle"
    /\ \E resp \in StateReplies, err \in QueryErrs :
        /\ op' = [op EXCEPT ![p] = "State"]
        /\ arg' = [arg EXCEPT ![p] = [resp |-> resp, err |-> err]]
        /\ pc' = [pc EXCEPT ![p] = "done"]
        /\ ret' = [ret EXCEPT ![p] = State(resp, err)]
    /\ UNCHANGED <<active, tp, conn, devFileInfos, cursor, dest, peerFile>>

CallList(p) ==
    /\ p \in active /\ pc[p] = "idle"
    /\ Start(p, "List", [remotePath |-> RemotePath, listing |-> <<>>])

\* source is an io.Reader: its bytes are known once SendStream has read them.
CallPush(p) ==
    /\ p \in active /\ pc[p] = "idle"
    /\ \E t \in Times, m \in Modes :
        Start(p, "Push", [source |-> <<>>, remotePath |-> RemotePath,
                          modification |-> t, mode |-> m])

CallPull(p) ==
    /\ p \in active /\ pc[p] = "idle"
    /\ Start(p, "Pull", [remotePath |-> RemotePath])

CallShellStream(p) ==
    /\ p \in active /\ pc[p] = "idle"
    /\ \E c \in ShellCmds : Start(p, "ShellStream", [cmd |-> c])

\* ------------------------------------------------------------- CreateDeviceTransport
\* The label at which each operation continues once CreateDeviceTransport succeeded.
ExecOps == {"executeCommand", "RunShellCommandWithBytes"}

AfterCreate(o) ==
    CASE o \in ExecOps -> "exec_send"
      [] o = "ShellStream" -> "ss_send"
      [] OTHER -> "cst_send"

\* A caller that goes on whenever it was handed a Transport, whatever err says.
CallerAfterCreate_IgnoreErr(p, c, t, err) ==
    /\ tp' = [tp EXCEPT ![p] = t]
    /\ IF t = "nil"
       THEN Return(p, c, ErrRet(err))
       ELSE Goto(p, c, AfterCreate(op[p]))

\* A caller that calls CreateDeviceTransport a second time when the first failed.
CallerAfterCreate_RetryOnce(p, c, t, err) ==
    IF IsErr(err) /\ c.opens < 2
    THEN /\ tp' = [tp EXCEPT ![p] = "nil"]
         /\ Goto(p, c, "cdt_open")
    ELSE /\ tp' = [tp EXCEPT ![p] = t]
         /\ IF IsErr(err)
            THEN Return(p, c, ErrRet(err))
            ELSE Goto(p, c, AfterCreate(op[p]))

\* if tp, err = d.CreateDeviceTransport(); err != nil { return nil, err }
\* The deferred Close is registered only after this check.
CallerAfterCreate(p, c, t, err) ==
    /\ tp' = [tp EXCEPT ![p] = t]
    /\ IF IsErr(err)
       THEN Return(p, c, ErrRet(err))
       ELSE Goto(p, c, AfterCreate(op[p]))

\* A CreateDeviceTransport that keeps one Connection per Device and hands the
\* open one to whoever asks next.
CreateDeviceTransport_Open_Shared(p) ==
    /\ pc[p] = "cdt_open"
    /\ \E ok \in BOOLEAN :
        IF ok
        THEN /\ tp' = [tp EXCEPT ![p] = "set"]
             /\ IF \E q \in Procs \ {p} : conn[q].state = "open"
                THEN Goto(p, conn[CHOOSE q \in Procs \ {p} : conn[q].state = "open"], "cdt_send")
                ELSE Goto(p, [NewTransport EXCEPT !.owner = p, !.opens = conn[p].opens + 1],
                          "cdt_send")
        ELSE CallerAfterCreate(p, conn[p], "nil", ConnectionError)
    /\ UNCHANGED <<active, op, arg, devFileInfos, cursor, dest, peerFile>>

\* tp, err = NewTransport(...); on failure CreateDeviceTransport returns nil, err.
CreateDeviceTransport_Open(p) ==
    /\ pc[p] = "cdt_open"
    /\ \E ok \in BOOLEAN :
        IF ok
        THEN /\ tp' = [tp EXCEPT ![p] = "set"]
             /\ Goto(p, [NewTransport EXCEPT !.owner = p, !.opens = conn[p].opens + 1], "cdt_send")
        ELSE CallerAfterCreate(p, conn[p], "nil", ConnectionError)
    /\ UNCHANGED <<active, op, arg, devFileInfos, cursor, dest, peerFile>>

\* tp.Send("host:transport:<serial>"); on failure returns nil, err.
CreateDeviceTransport_Send(p) ==
    /\ pc[p] = "cdt_send"
    /\ \E ok \in BOOLEAN :
        LET c == Send(conn[p], <<"host:transport:", Serial>>, ok)
        IN  IF ok
            THEN Goto(p, c, "cdt_verify") /\ UNCHANGED tp
            ELSE CallerAfterCreate(p, c, "nil", IOError)
    /\ UNCHANGED <<active, op, arg, devFileInfos, cursor, dest, peerFile>>

\* err = tp.VerifyResponse(); return: tp is returned together with err.
CreateDeviceTransport_Verify(p) ==
    /\ pc[p] = "cdt_verify"
    /\ \E resp \in Responses :
        CallerAfterCreate(p, VerifyResponse(conn[p], resp), "set", StatusErr(resp))
    /\ UNCHANGED <<active, op, arg, devFileInfos, cursor, dest, peerFile>>

\* ------------------------------------------------------------- executeCommand
OnlyVerifyResponse(a) ==
    IF Len(a.onlyVerifyResponse) = 0 THEN FALSE ELSE a.onlyVerifyResponse[1]

\* executeCommand reading the reply without verifying the command's status.
executeCommand_Send_NoVerify(p) ==
    /\ pc[p] = "exec_send"
    /\ \E ok \in BOOLEAN :
        LET c == Send(conn[p], arg[p].command, ok)
        IN  IF ok
            THEN Goto(p, c, "exec_read")
            ELSE Return(p, Close(c, "op"), ErrRet(IOError))
    /\ UNCHANGED <<active, op, arg, tp, devFileInfos, cursor, dest, peerFile>>

\* tp.Send(command); the deferred tp.Close() runs on every return from here on.
executeCommand_Send(p) ==
    /\ pc[p] = "exec_send"
    /\ \E ok \in BOOLEAN :
        LET c == Send(conn[p], arg[p].command, ok)
        IN  IF ok
            THEN Goto(p, c, "exec_verify")
            ELSE Return(p, Close(c, "op"), ErrRet(IOError))
    /\ UNCHANGED <<active, op, arg, tp, devFileInfos, cursor, dest, peerFile>>

\* The peer's answer to the command: its status, and behind it the reply it
\* writes before closing.
Answered(c, reply) == [c EXCEPT !.inbound = reply]

\* executeCommand reading the reply whatever onlyVerifyResponse says.
executeCommand_Verify_AlwaysRead(p) ==
    /\ pc[p] = "exec_verify"
    /\ \E resp \in Responses, reply \in Replies :
        LET c == VerifyResponse(Answered(conn[p], reply), resp)
            err == StatusErr(resp)
        IN  /\ arg' = [arg EXCEPT ![p].reply = reply]
            /\ IF IsErr(err)
               THEN Return(p, Close(c, "op"), ErrRet(err))
               ELSE Goto(p, c, "exec_read")
    /\ UNCHANGED <<active, op, tp, devFileInfos, cursor, dest, peerFile>>

\* executeCommand wrapping the error of VerifyResponse in a message of its own.
executeCommand_Verify_WrapErr(p) ==
    /\ pc[p] = "exec_verify"
    /\ \E resp \in Responses, reply \in Replies :
        LET c == VerifyResponse(Answered(conn[p], reply), resp)
            err == StatusErr(resp)
        IN  /\ arg' = [arg EXCEPT ![p].reply = reply]
            /\ IF IsErr(err)
               THEN Return(p, Close(c, "op"), ErrRet([err EXCEPT !.reason = "command failed"]))
               ELSE IF OnlyVerifyResponse(arg[p])
                    THEN Return(p, Close(c, "op"), NoRet)
                    ELSE Goto(p, c, "exec_read")
    /\ UNCHANGED <<active, op, tp, devFileInfos, cursor, dest, peerFile>>

\* tp.VerifyResponse(); then return at once when onlyVerifyResponse[0].
executeCommand_Verify(p) ==
    /\ pc[p] = "exec_verify"
    /\ \E resp \in Responses, reply \in Replies :
        LET c == VerifyResponse(Answered(conn[p], reply), resp)
            err == StatusErr(resp)
        IN  /\ arg' = [arg EXCEPT ![p].reply = reply]
            /\ IF IsErr(err)
               THEN Return(p, Close(c, "op"), ErrRet(err))
               ELSE IF OnlyVerifyResponse(arg[p])
                    THEN Return(p, Close(c, "op"), NoRet)
                    ELSE Goto(p, c, "exec_read")
    /\ UNCHANGED <<active, op, tp, devFileInfos, cursor, dest, peerFile>>

\* raw, err = tp.ReadBytesAll(); return. A read that fails has read a part of
\* what the peer sent.
executeCommand_Read(p) ==
    /\ pc[p] = "exec_read"
    /\ \E ok \in BOOLEAN, n \in 0..Len(conn[p].inbound) :
        /\ ok => n = Len(conn[p].inbound)
        /\ Return(p, Close(ReadBytesAll(conn[p], n, ok), "op"),
                  [NoRet EXCEPT !.rawNil = FALSE, !.raw = SubSeq(conn[p].inbound, 1, n),
                                !.err = IF ok THEN NoErr ELSE IOError])
    /\ UNCHANGED <<active, op, arg, tp, devFileInfos, cursor, dest, peerFile>>

\* ------------------------------------------------------------- ShellStream
\* tp.Send("shell:<cmd>"); on failure tp.Close() and return nil, nil, err.
ShellStream_Send(p) ==
    /\ pc[p] = "ss_send"
    /\ \E ok \in BOOLEAN :
        LET c == Send(conn[p], <<"shell:", arg[p].cmd>>, ok)
        IN  IF ok
            THEN Goto(p, c, "ss_verify")
            ELSE Return(p, Close(c, "op"), ErrRet(IOError))
    /\ UNCHANGED <<active, op, arg, tp, devFileInfos, cursor, dest, peerFile>>

\* tp.VerifyResponse(); on failure tp.Close(); otherwise return tp and a scanner.
ShellStream_Verify(p) ==
    /\ pc[p] = "ss_verify"
    /\ \E resp \in Responses :
        LET c == VerifyResponse(conn[p], resp)
            err == StatusErr(resp)
        IN  IF IsErr(err)
            THEN Return(p, Close(c, "op"), ErrRet(err))
            ELSE Return(p, c, [NoRet EXCEPT !.tp = TRUE])
    /\ UNCHANGED <<active, op, arg, tp, devFileInfos, cursor, dest, peerFile>>

\* The caller of ShellStream closes the Transport it was handed.
CallerClose(p) ==
    /\ pc[p] = "done"
    /\ ret[p].tp
    /\ conn[p].state = "open"
    /\ conn' = [conn EXCEPT ![p] = UsedBy(p, Close(@, "caller"))]
    /\ UNCHANGED <<active, pc, op, arg, tp, devFileInfos, cursor, dest, ret, peerFile>>

\* The caller's scanner.Scan() on the socket of the Connection it was handed:
\* the read waits for the peer.
CallerScan(p) ==
    /\ pc[p] = "done"
    /\ ret[p].tp
    /\ conn[p].state = "open" /\ conn[p].reader = "none"
    /\ conn' = [conn EXCEPT ![p].reader = "blocked"]
    /\ UNCHANGED <<active, pc, op, arg, tp, devFileInfos, cursor, dest, ret, peerFile>>

\* The peer sends a line: the waiting read returns it.
PeerLine(p) ==
    /\ conn[p].state = "open" /\ conn[p].reader = "blocked"
    /\ conn' = [conn EXCEPT ![p].reader = "none"]
    /\ UNCHANGED <<active, pc, op, arg, tp, devFileInfos, cursor, dest, ret, peerFile>>

\* The peer ends the stream: the waiting read returns end of input.
PeerEof(p) ==
    /\ conn[p].state = "open" /\ conn[p].reader = "blocked"
    /\ conn' = [conn EXCEPT ![p].reader = "eof"]
    /\ UNCHANGED <<active, pc, op, arg, tp, devFileInfos, cursor, dest, ret, peerFile>>

\* A read that a Close does not wake: it returns only what is still buffered.
ReadAborted_NotWoken(p) ==
    /\ conn[p].state = "closed" /\ conn[p].reader = "blocked"
    /\ Len(conn[p].inbound) > 0
    /\ conn' = [conn EXCEPT ![p].reader = "error"]
    /\ UNCHANGED <<active, pc, op, arg, tp, devFileInfos, cursor, dest, ret, peerFile>>

\* The socket was closed under a waiting read: the read returns an error.
ReadAborted(p) ==
    /\ conn[p].state = "closed" /\ conn[p].reader = "blocked"
    /\ conn' = [conn EXCEPT ![p].reader = "error"]
    /\ UNCHANGED <<active, pc, op, arg, tp, devFileInfos, cursor, dest, ret, peerFile>>


\* ------------------------------------------------------------- Sync Transport
\* sync.Send(commandId, payload): one framed message.
SyncSend(c, id, payload, ok) ==
    [c EXCEPT !.log = Append(@, Entry(c, "SyncSend", <<id, payload>>, ok, "op"))]

\* The source cut into DATA payloads of at most MaxChunk bytes.
RECURSIVE Chunks(_)
Chunks(s) ==
    IF Len(s) = 0 THEN <<>>
    ELSE IF Len(s) <= MaxChunk THEN <<s>>
    ELSE <<SubSeq(s, 1, MaxChunk)>> \o Chunks(SubSeq(s, MaxChunk + 1, Len(s)))

RECURSIVE Flatten(_)
Flatten(ss) == IF Len(ss) = 0 THEN <<>> ELSE Head(ss) \o Flatten(Tail(ss))

\* sync.SendStream(source): one DATA frame per chunk; `sent` chunks went out
\* before the stream ended (ok) or a write failed.
SendStream(c, source, sent, ok) ==
    [c EXCEPT !.log = Append(@, Entry(c, "SendStream", SubSeq(Chunks(source), 1, sent), ok, "op"))]

\* sync.SendStatus(commandId, value): the frame that ends a push.
SendStatus(c, id, value, ok) ==
    [c EXCEPT !.log = Append(@, Entry(c, "SendStatus", [id |-> id, value |-> value], ok, "op"))]

\* sync.VerifyStatus(): OKAY is success, FAIL carries the peer's message.
VerifyStatus(c, resp) ==
    [c EXCEPT !.log = Append(@, [Entry(c, "VerifyStatus", resp.status, resp.status = "OKAY", "op")
                                 EXCEPT !.reason = resp.reason])]

\* The frames a listing peer sends: DENT with a payload, DONE, an unknown id, or
\* nothing more (the socket closed).
DentFrame(d) == [id |-> "DENT", dent |-> d]
PlainFrame(id) == [id |-> id, dent |-> [mode |-> 0, size |-> 0, mtime |-> 0, name |-> ""]]

\* sync.ReadDirectoryEntry(): DENT decodes to an entry, DONE gives the zero entry.
ReadDirectoryEntry(frame) ==
    CASE frame.id = "DENT" -> [entry |-> DecodeDent(frame.dent), err |-> NoErr]
      [] frame.id = "DONE" -> [entry |-> ZeroFileInfo, err |-> NoErr]
      [] frame.id = "EOF" -> [entry |-> ZeroFileInfo, err |-> IOError]
      [] OTHER -> [entry |-> ZeroFileInfo, err |-> ProtocolError]

LogReadDirectoryEntry(c, frame) ==
    [c EXCEPT !.log = Append(@, Entry(c, "ReadDirectoryEntry", frame.id, frame.id \in {"DENT", "DONE"}, "op"))]

\* sync.WriteStream(dest) on the frames the peer sends: DATA payloads are
\* appended to dest, DONE ends the transfer, FAIL aborts with its message, and a
\* socket closed before DONE is an I/O error.
DataFrame(b) == [id |-> "DATA", payload |-> b, reason |-> ""]
DoneFrame == [id |-> "DONE", payload |-> <<>>, reason |-> ""]
FailFrame(r) == [id |-> "FAIL", payload |-> <<>>, reason |-> r]

RECURSIVE WriteStreamRun(_, _)
WriteStreamRun(frames, out) ==
    IF Len(frames) = 0 THEN [dest |-> out, err |-> IOError]
    ELSE LET f == Head(frames)
         IN  CASE f.id = "DATA" -> WriteStreamRun(Tail(frames), out \o f.payload)
               [] f.id = "DONE" -> [dest |-> out, err |-> NoErr]
               [] f.id = "FAIL" -> [dest |-> out, err |-> RemoteRejection(f.reason)]
               [] OTHER -> [dest |-> out, err |-> ProtocolError]

WriteStream(c, frames) ==
    [c EXCEPT !.log = Append(@, [Entry(c, "WriteStream", [i \in 1..Len(frames) |-> frames[i].id],
                                       ~IsErr(WriteStreamRun(frames, <<>>).err), "op")
                                 EXCEPT !.reason = WriteStreamRun(frames, <<>>).err.reason])]

\* sync.Close(): releases the sync sub-mode; the Connection stays as it is.
SyncClose(c) ==
    [c EXCEPT !.log = Append(@, Entry(c, "SyncClose", "", TRUE, "op"))]

\* The deferred calls of List, Push and Pull once both are registered:
\* sync.Close(), then tp.Close().
Deferred(c) == Close(SyncClose(c), "op")

\* ------------------------------------------------------------- the peer
\* What a peer holding the file answers to RECV: its DATA frames and DONE, or a
\* prefix of them cut short by a closed socket or by FAIL.
PullFrames(f) ==
    LET chunks == IF f.exists THEN Chunks(f.data) ELSE <<>>
        data == [i \in 1..Len(chunks) |-> DataFrame(chunks[i])]
        cut == {SubSeq(data, 1, k) : k \in 0..Len(data)}
    IN  (IF f.exists THEN {data \o <<DoneFrame>>} ELSE {})
        \cup cut
        \cup {pre \o <<FailFrame(r)>> : pre \in cut, r \in Reasons}

\* The successful sends of a Connection in sync mode, by call.
SyncSends(c) ==
    SelectSeq(c.log, LAMBDA e : e.mode = "sync" /\ e.ok
                                 /\ e.call \in {"SyncSend", "SendStream", "SendStatus"})

\* The peer has a whole push in hand: SEND, the DATA frames, DONE.
PushReceived(c) ==
    LET s == SyncSends(c)
    IN  /\ Len(s) = 3
        /\ s[1].call = "SyncSend" /\ s[1].arg[1] = "SEND"
        /\ s[2].call = "SendStream"
        /\ s[3].call = "SendStatus" /\ s[3].arg.id = "DONE"

\* The file the peer stores for the push it received on c.
Stored(c, a, acked) ==
    LET s == SyncSends(c)
    IN  [exists |-> TRUE, data |-> Flatten(s[2].arg), mtime |-> s[3].arg.value,
         acked |-> acked, srcData |-> a.source, srcTime |-> a.modification]

\* ------------------------------------------------------------- CreateSyncTransport
AfterSync(o) ==
    CASE o = "List" -> "list_send"
      [] o = "Push" -> "push_send"
      [] OTHER -> "pull_send"

\* if sync, err = tp.CreateSyncTransport(); err != nil { return nil, err }
\* with tp.Close() deferred.
CallerAfterSync(p, c, err) ==
    IF IsErr(err)
    THEN Return(p, Close(c, "op"), ErrRet(err))
    ELSE Goto(p, c, AfterSync(op[p]))

\* tp.CreateSyncTransport(): send sync: ...
CreateSyncTransport_Send(p) ==
    /\ pc[p] = "cst_send"
    /\ \E ok \in BOOLEAN :
        LET c == Send(conn[p], <<"sync:">>, ok)
        IN  IF ok
            THEN Goto(p, c, "cst_verify")
            ELSE CallerAfterSync(p, c, IOError)
    /\ UNCHANGED <<active, op, arg, tp, devFileInfos, cursor, dest, peerFile>>

\* ... verify, and the Connection is in sync mode.
CreateSyncTransport_Verify(p) ==
    /\ pc[p] = "cst_verify"
    /\ \E resp \in Responses :
        LET c == VerifyResponse(conn[p], resp)
            err == StatusErr(resp)
        IN  CallerAfterSync(p, IF IsErr(err) THEN c ELSE [c EXCEPT !.mode = "sync"], err)
    /\ UNCHANGED <<active, op, arg, tp, devFileInfos, cursor, dest, peerFile>>


\* ------------------------------------------------------------- List
\* List sending LIST with the host framing of tp.Send instead of sync.Send.
List_Send_HostFraming(p) ==
    /\ pc[p] = "list_send"
    /\ \E ok \in BOOLEAN :
        LET c == Send(conn[p], <<"LIST", arg[p].remotePath>>, ok)
        IN  IF ok
            THEN Goto(p, VerifyResponse(c, [status |-> "OKAY", reason |-> ""]), "list_read")
            ELSE Return(p, Deferred(c), ErrRet(IOError))
    /\ devFileInfos' = [devFileInfos EXCEPT ![p] = <<>>]
    /\ \E l \in Listings : arg' = [arg EXCEPT ![p].listing = l]
    /\ UNCHANGED <<active, op, tp, cursor, dest, peerFile>>

\* sync.Send("LIST", remotePath); then devFileInfos = make([]DeviceFileInfo, 0).
\* The directory the peer will list is the peer's, fixed when LIST reaches it.
List_Send(p) ==
    /\ pc[p] = "list_send"
    /\ \E ok \in BOOLEAN :
        LET c == SyncSend(conn[p], "LIST", arg[p].remotePath, ok)
        IN  IF ok
            THEN Goto(p, c, "list_read")
            ELSE Return(p, Deferred(c), ErrRet(IOError))
    /\ devFileInfos' = [devFileInfos EXCEPT ![p] = <<>>]
    /\ \E l \in Listings : arg' = [arg EXCEPT ![p].listing = l]
    /\ UNCHANGED <<active, op, tp, cursor, dest, peerFile>>

\* The frame the peer delivers next to a List that has taken k frames of the
\* listing l: the next DENT, then the closing DONE, nothing after it; the
\* socket may close and a foreign frame may arrive at any point.
ListFrames(l, k) ==
    (IF k < Len(l) THEN {DentFrame(l[k + 1])}
     ELSE IF k = Len(l) THEN {PlainFrame("DONE")} ELSE {})
    \cup {PlainFrame("EOF"), PlainFrame("STAT")}

\* A loop that takes the sentinel to be any entry with an empty name.
List_Loop_EmptyName(p, c, r) ==
    IF IsErr(r.err)
    THEN /\ Return(p, Deferred(c), [NoRet EXCEPT !.err = r.err, !.entriesNil = FALSE,
                                                 !.entries = devFileInfos[p]])
         /\ UNCHANGED devFileInfos
    ELSE IF r.entry.Name = ""
    THEN /\ Return(p, Deferred(c), [NoRet EXCEPT !.entriesNil = FALSE,
                                                 !.entries = devFileInfos[p]])
         /\ UNCHANGED devFileInfos
    ELSE /\ Goto(p, c, "list_read")
         /\ devFileInfos' = [devFileInfos EXCEPT ![p] = Append(@, r.entry)]

\* for entry, err = sync.ReadDirectoryEntry(); err == nil; ... { if entry ==
\* (DeviceFileInfo{}) { break }; devFileInfos = append(devFileInfos, entry) }; return
\* One pass of the loop on the result r of ReadDirectoryEntry.
List_Loop(p, c, r) ==
    IF IsErr(r.err)
    THEN /\ Return(p, Deferred(c), [NoRet EXCEPT !.err = r.err, !.entriesNil = FALSE,
                                                 !.entries = devFileInfos[p]])
         /\ UNCHANGED devFileInfos
    ELSE IF r.entry = ZeroFileInfo
    THEN /\ Return(p, Deferred(c), [NoRet EXCEPT !.entriesNil = FALSE,
                                                 !.entries = devFileInfos[p]])
         /\ UNCHANGED devFileInfos
    ELSE /\ Goto(p, c, "list_read")
         /\ devFileInfos' = [devFileInfos EXCEPT ![p] = Append(@, r.entry)]

List_Read(p) ==
    /\ pc[p] = "list_read"
    /\ \E f \in ListFrames(arg[p].listing, cursor[p]) :
        /\ cursor' = [cursor EXCEPT ![p] = IF f.id \in {"DENT", "DONE"} THEN @ + 1 ELSE @]
        /\ List_Loop(p, LogReadDirectoryEntry(conn[p], f), ReadDirectoryEntry(f))
    /\ UNCHANGED <<active, op, arg, tp, dest, peerFile>>

\* ------------------------------------------------------------- Push
\* mode[0], DefaultFileMode when no mode is given.
PushMode(a) == IF Len(a.mode) = 0 THEN DefaultFileMode ELSE a.mode[1]

\* fmt.Sprintf("%s,%d", remotePath, mode[0])
PushData(a) == <<a.remotePath, ",", PushMode(a)>>

\* The mtime clamped to the range of the 32-bit field instead of converted.
PushMtime_Saturate(a) ==
    IF a.modification.hi < 0 THEN [hi |-> 0, lo |-> 0]
    ELSE IF a.modification.hi >= Limb THEN [hi |-> Limb - 1, lo |-> Limb - 1]
    ELSE TimeUnix(a.modification)

\* The nanosecond part sent in place of the seconds.
PushMtime_Nanosecond(a) == Uint32([hi |-> 0, lo |-> a.modification.nsec])

\* uint32(modification.Unix())
PushMtime(a) == Uint32(TimeUnix(a.modification))

\* sync.Send("SEND", data)
Push_Send(p) ==
    /\ pc[p] = "push_send"
    /\ \E ok \in BOOLEAN :
        LET c == SyncSend(conn[p], "SEND", PushData(arg[p]), ok)
        IN  IF ok
            THEN Goto(p, c, "push_stream")
            ELSE Return(p, Deferred(c), ErrRet(IOError))
    /\ UNCHANGED <<active, op, arg, tp, devFileInfos, cursor, dest, peerFile>>

\* sync.SendStream(source)
Push_Stream(p) ==
    /\ pc[p] = "push_stream"
    /\ \E s \in Sources, sent \in 0..MaxLen, ok \in BOOLEAN :
        /\ sent <= Len(Chunks(s))
        /\ ok => sent = Len(Chunks(s))
        /\ arg' = [arg EXCEPT ![p].source = s]
        /\ LET c == SendStream(conn[p], s, sent, ok)
           IN  IF ok
               THEN Goto(p, c, "push_status")
               ELSE Return(p, Deferred(c), ErrRet(IOError))
    /\ UNCHANGED <<active, op, tp, devFileInfos, cursor, dest, peerFile>>

\* A Push that goes on to VerifyStatus although SendStatus failed.
Push_Status_IgnoreErr(p) ==
    /\ pc[p] = "push_status"
    /\ \E ok \in BOOLEAN :
        Goto(p, SendStatus(conn[p], "DONE", PushMtime(arg[p]), ok), "push_verify")
    /\ UNCHANGED <<active, op, arg, tp, devFileInfos, cursor, dest, peerFile>>

\* sync.SendStatus("DONE", uint32(modification.Unix()))
Push_Status(p) ==
    /\ pc[p] = "push_status"
    /\ \E ok \in BOOLEAN :
        LET c == SendStatus(conn[p], "DONE", PushMtime(arg[p]), ok)
        IN  IF ok
            THEN Goto(p, c, "push_verify")
            ELSE Return(p, Deferred(c), ErrRet(IOError))
    /\ UNCHANGED <<active, op, arg, tp, devFileInfos, cursor, dest, peerFile>>

\* sync.VerifyStatus(); return.  The peer stores the file when it answers OKAY;
\* when the socket breaks it may or may not have stored it.
Push_Verify(p) ==
    /\ pc[p] = "push_verify"
    /\ \E resp \in Responses, stored \in BOOLEAN :
        /\ resp.status = "OKAY" => PushReceived(conn[p]) /\ stored
        /\ stored => PushReceived(conn[p]) /\ resp.status \in {"OKAY", "EOF"}
        /\ peerFile' = IF stored THEN Stored(conn[p], arg[p], resp.status = "OKAY")
                       ELSE peerFile
        /\ Return(p, Deferred(VerifyStatus(conn[p], resp)), ErrRet(StatusErr(resp)))
    /\ UNCHANGED <<active, op, arg, tp, devFileInfos, cursor, dest>>

\* ------------------------------------------------------------- Pull
\* sync.Send("RECV", remotePath)
Pull_Send(p) ==
    /\ pc[p] = "pull_send"
    /\ \E ok \in BOOLEAN :
        LET c == SyncSend(conn[p], "RECV", arg[p].remotePath, ok)
        IN  IF ok
            THEN Goto(p, c, "pull_write")
            ELSE Return(p, Deferred(c), ErrRet(IOError))
    /\ UNCHANGED <<active, op, arg, tp, devFileInfos, cursor, dest, peerFile>>

\* A Pull that drops the error of WriteStream.
Pull_Write_DropErr(p) ==
    /\ pc[p] = "pull_write"
    /\ \E frames \in PullFrames(peerFile) :
        LET r == WriteStreamRun(frames, dest[p])
        IN  /\ dest' = [dest EXCEPT ![p] = r.dest]
            /\ Return(p, Deferred(WriteStream(conn[p], frames)), NoRet)
    /\ UNCHANGED <<active, op, arg, tp, devFileInfos, cursor, peerFile>>

\* err = sync.WriteStream(dest); return
Pull_Write(p) ==
    /\ pc[p] = "pull_write"
    /\ \E frames \in PullFrames(peerFile) :
        LET r == WriteStreamRun(frames, dest[p])
        IN  /\ dest' = [dest EXCEPT ![p] = r.dest]
            /\ Return(p, Deferred(WriteStream(conn[p], frames)), ErrRet(r.err))
    /\ UNCHANGED <<active, op, arg, tp, devFileInfos, cursor, peerFile>>

\* ------------------------------------------------------------- the caller
\* a & b on unsigned integers, bit by bit.
RECURSIVE BitAnd(_, _)
BitAnd(a, b) ==
    IF a = 0 \/ b = 0 THEN 0
    ELSE (a % 2) * (b % 2) + 2 * BitAnd(a \div 2, b \div 2)

\* 1 << 14
ModeDir == 2 ^ 14

\* An IsDir that compares the whole mode with the directory bit.
IsDir_WholeMode(info) == info.Mode = ModeDir

\* info.IsDir(): (info.Mode & (1 << 14)) == (1 << 14)
IsDir(info) == BitAnd(info.Mode, ModeDir) = ModeDir

\* The caller asks every entry List returned whether it is a directory.
CallIsDir(p) ==
    /\ pc[p] = "done" /\ op[p] = "List"
    /\ Len(ret[p].entries) > 0 /\ Len(ret[p].isDir) = 0
    /\ ret' = [ret EXCEPT ![p].isDir = [i \in DOMAIN ret[p].entries |-> IsDir(ret[p].entries[i])]]
    /\ UNCHANGED <<active, pc, op, arg, tp, conn, devFileInfos, cursor, dest, peerFile>>

\* The caller is done with the results and is free to call again.
Reset(p) ==
    /\ pc[p] = "done"
    /\ conn[p].reader # "blocked"
    /\ pc' = [pc EXCEPT ![p] = "idle"]
    /\ op' = [op EXCEPT ![p] = "none"]
    /\ arg' = [arg EXCEPT ![p] = NoArg]
    /\ tp' = [tp EXCEPT ![p] = "nil"]
    /\ conn' = [conn EXCEPT ![p] = NoConn]
    /\ devFileInfos' = [devFileInfos EXCEPT ![p] = <<>>]
    /\ cursor' = [cursor EXCEPT ![p] = 0]
    /\ dest' = [dest EXCEPT ![p] = <<>>]
    /\ ret' = [ret EXCEPT ![p] = NoRet]
    /\ UNCHANGED <<active, peerFile>>

Next ==
    \E p \in Procs :
        \/ CallExecuteCommand(p)
        \/ CallRunShellCommandWithBytes(p)
        \/ CallState(p)
        \/ CallList(p)
        \/ CallPush(p)
        \/ CallPull(p)
        \/ CallShellStream(p)
        \/ CreateDeviceTransport_Open(p)
        \/ CreateDeviceTransport_Send(p)
        \/ CreateDeviceTransport_Verify(p)
        \/ executeCommand_Send(p)
        \/ executeCommand_Verify(p)
        \/ executeCommand_Read(p)
        \/ ShellStream_Send(p)
        \/ ShellStream_Verify(p)
        \/ CallerClose(p)
        \/ CallerScan(p)
        \/ PeerLine(p)
        \/ PeerEof(p)
        \/ ReadAborted(p)
        \/ CreateSyncTransport_Send(p)
        \/ CreateSyncTransport_Verify(p)
        \/ List_Send(p)
        \/ List_Read(p)
        \/ Push_Send(p)
        \/ Push_Stream(p)
        \/ Push_Status(p)
        \/ Push_Verify(p)
        \/ Pull_Send(p)
        \/ Pull_Write(p)
        \/ CallIsDir(p)
        \/ Reset(p)

Spec == Init /\ [][Next]_vars

\* Two goroutines calling operations of the same Device at once. Push is left
\* to the one-process specification.
InitConc ==
    /\ active = Procs
    /\ pc = [p \in Procs |-> "idle"]
    /\ op = [p \in Procs |-> "none"]
    /\ arg = [p \in Procs |-> NoArg]
    /\ tp = [p \in Procs |-> "nil"]
    /\ conn = [p \in Procs |-> NoConn]
    /\ devFileInfos = [p \in Procs |-> <<>>]
    /\ cursor = [p \in Procs |-> 0]
    /\ dest = [p \in Procs |-> <<>>]
    /\ ret = [p \in Procs |-> NoRet]
    /\ peerFile = NoFile

NextConc ==
    \E p \in Procs :
        \/ CallExecuteCommand(p)
        \/ CallList(p)
        \/ CallPull(p)
        \/ CallShellStream(p)
        \/ CreateDeviceTransport_Open(p)
        \/ CreateDeviceTransport_Send(p)
        \/ CreateDeviceTransport_Verify(p)
        \/ executeCommand_Send(p)
        \/ executeCommand_Verify(p)
        \/ executeCommand_Read(p)
        \/ ShellStream_Send(p)
        \/ ShellStream_Verify(p)
        \/ CallerClose(p)
        \/ CallerScan(p)
        \/ PeerLine(p)
        \/ PeerEof(p)
        \/ ReadAborted(p)
        \/ CreateSyncTransport_Send(p)
        \/ CreateSyncTransport_Verify(p)
        \/ List_Send(p)
        \/ List_Read(p)
        \/ Pull_Send(p)
        \/ Pull_Write(p)
        \/ Reset(p)

SpecConc == InitConc /\ [][NextConc]_vars

\* Two callers streaming shell output. A read waiting on a socket is woken when
\* the socket is closed: the runtime does not leave that step undone for ever.
NextStream ==
    \E p \in Procs :
        \/ CallShellStream(p)
        \/ CreateDeviceTransport_Open(p)
        \/ CreateDeviceTransport_Send(p)
        \/ CreateDeviceTransport_Verify(p)
        \/ ShellStream_Send(p)
        \/ ShellStream_Verify(p)
        \/ CallerClose(p)
        \/ CallerScan(p)
        \/ PeerLine(p)
        \/ PeerEof(p)
        \/ ReadAborted(p)
        \/ Reset(p)

SpecStream ==
    /\ InitConc
    /\ [][NextStream]_vars
    /\ \A p \in Procs : WF_vars(ReadAborted(p))


\* ------------------------------------------------------------- properties
Returned(p, o) == pc[p] = "done" /\ op[p] = o
Failed(p) == IsErr(ret[p].err)
Calls(c, names) == SelectSeq(c.log, LAMBDA e : e.call \in names)
SendCalls == {"Send", "SyncSend", "SendStream", "SendStatus"}
SyncCalls == {"SyncSend", "SendStream", "SendStatus", "VerifyStatus",
              "ReadDirectoryEntry", "WriteStream"}

\* C1: when an operation that opened a Connection has returned (every return
\* of executeCommand, List, Push and Pull, the failing returns of ShellStream),
\* that Connection is closed.
C1_ClosedOnEveryExit ==
    \A p \in Procs :
        pc[p] = "done" /\ (op[p] = "ShellStream" => Failed(p))
            => conn[p].state # "open"

\* C2: a List that returns an error returns no entries.
C2_FailedListReturnsNoEntries ==
    \A p \in Procs :
        Returned(p, "List") /\ Failed(p) => Len(ret[p].entries) = 0

\* The listing l as List should return it: every DENT decoded, in order.
Decoded(l) == [i \in 1..Len(l) |-> DecodeDent(l[i])]

\* The peer has answered every ReadDirectoryEntry of this List with the next
\* frame of its listing: no closed socket, no foreign frame.
PeerListed(p) ==
    LET reads == Calls(conn[p], {"ReadDirectoryEntry"})
    IN  Len(reads) > 0 /\ \A i \in 1..Len(reads) : reads[i].ok

\* C3: when the peer emits the k DENT frames of its listing and then DONE,
\* List returns without error exactly the k entries in emission order, and it
\* has called ReadDirectoryEntry k + 1 times, not once more after the sentinel.
C3_ListReturnsEmittedEntries ==
    \A p \in Procs :
        Returned(p, "List") /\ PeerListed(p)
            => /\ ~Failed(p)
               /\ ret[p].entries = Decoded(arg[p].listing)
               /\ Len(Calls(conn[p], {"ReadDirectoryEntry"})) = Len(arg[p].listing) + 1

C3_Witness ==
    \E p \in Procs :
        /\ Returned(p, "List") /\ PeerListed(p)
        /\ Len(ret[p].entries) = 2
        /\ ret[p].entries[1].Name = "" /\ ret[p].entries[2].Name = "d"

\* C4: on every Connection the first call is Send of host:transport:<serial>,
\* and anything is sent after it only once VerifyResponse has accepted it.
C4_TransportCommandFirst ==
    \A p \in Procs :
        LET l == conn[p].log
        IN  /\ Len(l) > 0 =>
                l[1].call = "Send" /\ l[1].arg = <<"host:transport:", Serial>>
            /\ \A i \in 2..Len(l) :
                l[i].call \in SendCalls =>
                    l[1].ok /\ l[2].call = "VerifyResponse" /\ l[2].ok

C4_Witness ==
    \E p \in Procs :
        LET l == conn[p].log
        IN  /\ Len(l) >= 3
            /\ l[2].call = "VerifyResponse" /\ l[2].ok
            /\ l[3].call = "Send" /\ l[3].arg = <<"shell:", "ls">>


PushOrder == <<"SyncSend", "SendStream", "SendStatus", "VerifyStatus">>

\* C5: the sync steps of a Push are Send("SEND", "<remotePath>,<mode>"),
\* SendStream(source), SendStatus("DONE", mtime), VerifyStatus() in this order;
\* a step runs only if every earlier one succeeded; a failed step's error is
\* what Push returns; Push succeeds exactly when all four succeeded.
C5_PushStepsInOrder ==
    \A p \in Procs :
        op[p] = "Push" =>
            LET s == Calls(conn[p], SyncCalls)
                n == Len(s)
            IN  /\ n <= 4
                /\ \A i \in 1..n : s[i].call = PushOrder[i] /\ (i < n => s[i].ok)
                /\ n >= 1 => s[1].arg = <<"SEND", <<RemotePath, ",", PushMode(arg[p])>>>>
                /\ n >= 2 /\ s[2].ok => Flatten(s[2].arg) = arg[p].source
                /\ n >= 3 => s[3].arg.id = "DONE"
                /\ pc[p] = "done" =>
                    /\ ~Failed(p) <=> (n = 4 /\ s[4].ok /\ s[4].arg = "OKAY")
                    /\ n > 0 /\ ~s[n].ok =>
                        ret[p].err = IF n < 4 THEN IOError
                                     ELSE StatusErr([status |-> s[4].arg,
                                                     reason |-> ret[p].err.reason])

C5_Witness ==
    \E p \in Procs :
        /\ Returned(p, "Push") /\ ~Failed(p)
        /\ Len(arg[p].source) > MaxChunk
        /\ Len(Calls(conn[p], SyncCalls)) = 4

\* C6: a Pull whose peer stopped sending before DONE returns an error; a Pull
\* that returns success has read a DONE frame as the last frame.
C6_PullFailsWithoutDone ==
    \A p \in Procs :
        Returned(p, "Pull") /\ ~Failed(p) =>
            LET w == Calls(conn[p], {"WriteStream"})
            IN  /\ Len(w) = 1
                /\ Len(w[1].arg) > 0
                /\ w[1].arg[Len(w[1].arg)] = "DONE"

C6_Witness ==
    \E p \in Procs :
        /\ Returned(p, "Pull") /\ Failed(p)
        /\ ret[p].err = IOError
        /\ LET w == Calls(conn[p], {"WriteStream"})
           IN  Len(w) = 1 /\ w[1].arg = <<"DATA">>
        /\ Len(dest[p]) > 0

\* C7 as claimed: after a successful Push the peer holds the source bytes and
\* the modification time truncated to whole seconds, and a successful Pull of
\* a file stored by a successful Push writes the pushed bytes to dest.
C7_RoundTripWholeSeconds ==
    \A p \in Procs :
        /\ Returned(p, "Push") /\ ~Failed(p) =>
            /\ peerFile.data = arg[p].source
            /\ peerFile.mtime = TimeUnix(arg[p].modification)
        /\ Returned(p, "Pull") /\ ~Failed(p) /\ peerFile.acked =>
            dest[p] = peerFile.srcData

\* C7 amended: the bytes round-trip; the modification time the peer receives is
\* the Unix seconds of the pushed time modulo 2^32, which is the time
\* truncated to whole seconds whenever that lies in [0, 2^32).
C7_RoundTripModulo ==
    \A p \in Procs :
        /\ Returned(p, "Push") /\ ~Failed(p) =>
            /\ peerFile.data = arg[p].source
            /\ peerFile.mtime.lo = arg[p].modification.lo
            /\ peerFile.mtime.hi = arg[p].modification.hi % Limb
            /\ arg[p].modification.hi \in 0..(Limb - 1) =>
                peerFile.mtime = TimeUnix(arg[p].modification)
        /\ Returned(p, "Pull") /\ ~Failed(p) /\ peerFile.acked =>
            dest[p] = peerFile.srcData

C7_Witness ==
    \E p \in Procs :
        /\ Returned(p, "Pull") /\ ~Failed(p) /\ peerFile.acked
        /\ Len(dest[p]) > MaxChunk
        /\ peerFile.srcTime.hi = 0
        /\ peerFile.srcTime.nsec > 0

\* C8: a ShellStream that returns without error returns the Connection open
\* and never closes it itself; one that returns an error returns no
\* Connection and has closed the Connection it opened.
C8_ShellStreamHandsOver ==
    \A p \in Procs :
        Returned(p, "ShellStream") =>
            IF Failed(p)
            THEN ~ret[p].tp /\ conn[p].state # "open"
            ELSE /\ ret[p].tp
                 /\ \A i \in 1..Len(conn[p].log) :
                        conn[p].log[i].call = "Close" => conn[p].log[i].by = "caller"
                 /\ conn[p].state = "open" \/ Len(Calls(conn[p], {"Close"})) > 0

\* C9: a host command that was sent is followed at once by VerifyResponse; no
\* command is sent, no reply read and no sync call made while a status is
\* awaited, and VerifyResponse is called only when one is.
C9_OneRequestInFlight ==
    \A p \in Procs :
        LET l == conn[p].log
        IN  /\ conn[p].mode = "sync" => ~conn[p].pending
            /\ \A i \in 1..Len(l) :
                /\ l[i].call \in SendCalls \cup SyncCalls \cup {"ReadBytesAll"} => ~l[i].pending
                /\ l[i].call = "VerifyResponse" => l[i].pending
                /\ l[i].mode = "sync" => ~l[i].pending
                /\ l[i].call = "Send" /\ l[i].ok /\ i < Len(l) =>
                    l[i + 1].call = "VerifyResponse"

C9_Witness ==
    \E p \in Procs :
        /\ Len(Calls(conn[p], {"Send"})) = 2
        /\ Len(Calls(conn[p], {"VerifyResponse"})) = 2
        /\ Len(Calls(conn[p], {"ReadBytesAll"})) = 1

\* C10: every call made on a Connection after it was switched to sync mode is
\* a sync operation or a Close, never a host command.
C10_SyncModeOnlySyncCalls ==
    \A p \in Procs :
        \A i \in 1..Len(conn[p].log) :
            conn[p].log[i].mode = "sync" =>
                conn[p].log[i].call \in SyncCalls \cup {"SyncClose", "Close"}

C10_Witness ==
    \E p \in Procs :
        /\ conn[p].mode = "sync" /\ conn[p].state = "closed"
        /\ Len(Calls(conn[p], {"ReadDirectoryEntry"})) > 1

\* C12: when the peer answers a command with FAIL and a reason, the operation
\* that sent it has failed once it returns, and the error it returns is a remote
\* rejection carrying exactly that reason; this holds for the status read by
\* VerifyResponse and VerifyStatus and for the FAIL frame that ends a Pull.
FailAnswers(c) ==
    {i \in DOMAIN c.log :
        \/ c.log[i].call \in {"VerifyResponse", "VerifyStatus"} /\ c.log[i].arg = "FAIL"
        \/ /\ c.log[i].call = "WriteStream"
           /\ Len(c.log[i].arg) > 0
           /\ c.log[i].arg[Len(c.log[i].arg)] = "FAIL"}

C12_FailReasonReturned ==
    \A p \in Procs :
        pc[p] = "done" =>
            \A i \in FailAnswers(conn[p]) :
                /\ Failed(p)
                /\ ret[p].err = RemoteRejection(conn[p].log[i].reason)
                /\ conn[p].log[i].reason \in Reasons

\* The peer refused the shell command of executeCommand with FAIL 0004 nope.
C12_Witness ==
    \E p \in Procs :
        /\ Returned(p, "executeCommand")
        /\ \E i \in FailAnswers(conn[p]) :
            /\ i = 4
            /\ conn[p].log[i].read = 12
            /\ conn[p].log[i].reason = "nope"
        /\ ret[p].err = RemoteRejection("nope")

\* C13: a VerifyResponse that reads OKAY succeeds and consumes exactly the 4
\* status bytes; everything the peer sent behind them is still unread when
\* executeCommand goes on to read the reply.
C13_OkayConsumesFourBytes ==
    \A p \in Procs :
        /\ \A i \in DOMAIN conn[p].log :
              conn[p].log[i].call = "VerifyResponse" /\ conn[p].log[i].arg = "OKAY" =>
                  conn[p].log[i].ok /\ conn[p].log[i].read = 4
        /\ pc[p] = "exec_read" /\ Len(Calls(conn[p], {"VerifyResponse"})) = 2 =>
              conn[p].inbound = arg[p].reply

\* The peer answered the shell command with OKAY and two bytes of output, and
\* executeCommand is about to read them.
C13_Witness ==
    \E p \in Procs :
        /\ pc[p] = "exec_read"
        /\ arg[p].reply = <<0, 1>>
        /\ conn[p].inbound = <<0, 1>>
        /\ conn[p].log[4].call = "VerifyResponse"
        /\ conn[p].log[4].read = 4

\* C16: one call opens at most one Connection, sends no command twice on it,
\* and after a call on the Connection failed makes no further call on it other
\* than closing it.
Commands == {"Send", "SyncSend", "SendStatus"}

C16_NoRetries ==
    \A p \in Procs :
        LET l == conn[p].log
        IN  /\ conn[p].opens <= 1
            /\ \A i, j \in DOMAIN l :
                  i < j /\ l[i].call \in Commands /\ l[j].call = l[i].call =>
                      l[j].arg # l[i].arg
            /\ \A i, j \in DOMAIN l :
                  i < j /\ ~l[i].ok => l[j].call \in {"Close", "SyncClose"}

\* A Push whose SEND could not be written has returned the error, having opened
\* one Connection and sent each of its three commands once.
C16_Witness ==
    \E p \in Procs :
        /\ Returned(p, "Push") /\ Failed(p)
        /\ conn[p].opens = 1
        /\ Len(Calls(conn[p], Commands)) = 3
        /\ \E i \in DOMAIN conn[p].log :
              conn[p].log[i].call = "SyncSend" /\ ~conn[p].log[i].ok

\* C17: once its command was accepted, executeCommand in verify-only mode
\* returns nil bytes and no error without a ReadBytesAll; in the default mode
\* it makes one ReadBytesAll and, when that succeeds, returns exactly the bytes
\* the peer sent before closing. Either way the Connection is closed.
Accepted(p) ==
    LET v == Calls(conn[p], {"VerifyResponse"})
    IN  Len(v) = 2 /\ v[2].ok

C17_VerifyOnlySkipsBody ==
    \A p \in Procs :
        pc[p] = "done" /\ op[p] \in ExecOps /\ Accepted(p) =>
            LET reads == Calls(conn[p], {"ReadBytesAll"})
            IN  /\ conn[p].state = "closed"
                /\ IF OnlyVerifyResponse(arg[p])
                   THEN /\ Len(reads) = 0
                        /\ ret[p].rawNil /\ ret[p].raw = <<>>
                        /\ ~Failed(p)
                   ELSE /\ Len(reads) = 1
                        /\ reads[1].ok =>
                              /\ ~Failed(p)
                              /\ ~ret[p].rawNil
                              /\ ret[p].raw = arg[p].reply

\* tcpip:5555 was accepted and the peer sent two more bytes, which
\* EnableAdbOverTCP's executeCommand left unread.
C17_Witness ==
    \E p \in Procs :
        /\ Returned(p, "executeCommand") /\ Accepted(p)
        /\ OnlyVerifyResponse(arg[p])
        /\ arg[p].reply = <<0, 1>>
        /\ ret[p].rawNil /\ ~Failed(p)
        /\ conn[p].state = "closed"

\* C19: the mtime in the frame that ends a Push is the Unix seconds of the
\* modification time modulo 2^32: a value in [0, 2^32), equal to the seconds
\* themselves exactly when those lie in [0, 2^32); and a Push whose data went
\* out sends that frame whatever the time is.
C19_MtimeModulo ==
    \A p \in Procs :
        op[p] = "Push" =>
            LET l == conn[p].log
                t == TimeUnix(arg[p].modification)
            IN  /\ \A i \in DOMAIN l :
                      l[i].call = "SendStatus" =>
                          /\ l[i].arg.id = "DONE"
                          /\ l[i].arg.value.hi \in 0..(Limb - 1)
                          /\ l[i].arg.value.hi = t.hi % Limb
                          /\ l[i].arg.value.lo = t.lo
                          /\ (l[i].arg.value = t) <=> (t.hi \in 0..(Limb - 1))
                /\ pc[p] = "done" /\ (\E i \in DOMAIN l : l[i].call = "SendStream" /\ l[i].ok) =>
                      \E i \in DOMAIN l : l[i].call = "SendStatus"

\* A modification time before 1970 went out as a value just
\* below 2^32, and the Push succeeded.
C19_Witness ==
    \E p \in Procs :
        /\ Returned(p, "Push") /\ ~Failed(p)
        /\ arg[p].modification.hi = -1
        /\ \E i \in DOMAIN conn[p].log :
              /\ conn[p].log[i].call = "SendStatus" /\ conn[p].log[i].ok
              /\ conn[p].log[i].arg.value = [hi |-> Limb - 1, lo |-> arg[p].modification.lo]

\* C18: RunShellCommandWithBytes called with a cmd and args that, joined with
\* single spaces, are empty or all white space has returned an error and no
\* bytes, and has opened no Connection and sent nothing.
Blank(t) == \A i \in DOMAIN t : t[i] \in Whitespace

C18_BlankCommandRejected ==
    \A p \in Procs :
        op[p] = "RunShellCommandWithBytes" /\ Blank(Joined(arg[p].cmd, arg[p].args)) =>
            /\ pc[p] = "done"
            /\ Failed(p)
            /\ ret[p].rawNil /\ ret[p].raw = <<>>
            /\ conn[p].state = "none" /\ conn[p].opens = 0 /\ conn[p].log = <<>>

\* An empty cmd with one argument that is a tab: the joined text is a space and
\* a tab, and the call was refused.
C18_Witness ==
    \E p \in Procs :
        /\ Returned(p, "RunShellCommandWithBytes")
        /\ arg[p].cmd = <<>> /\ arg[p].args = <<<<"\t">>>>
        /\ Joined(arg[p].cmd, arg[p].args) = <<" ", "\t">>
        /\ ret[p].err = EmptyCommandError
        /\ conn[p].state = "none"

\* C20: State returns online for the reply "device", offline for "offline",
\* disconnected for the empty reply and UNKNOWN for every other text, and it
\* returns that mapping of the reply together with the query's error, also
\* when the query failed.
C20_StateMapsReply ==
    \A p \in Procs :
        Returned(p, "State") =>
            /\ ret[p].err = arg[p].err
            /\ ret[p].state = CASE arg[p].resp = "device" -> "online"
                                [] arg[p].resp = "offline" -> "offline"
                                [] arg[p].resp = "" -> "disconnected"
                                [] OTHER -> "UNKNOWN"

\* The query failed with an empty reply, and State returned disconnected with
\* the error.
C20_Witness ==
    \E p \in Procs :
        /\ Returned(p, "State")
        /\ arg[p].resp = "" /\ IsErr(arg[p].err)
        /\ ret[p].state = "disconnected" /\ Failed(p)

\* C15: IsDir of an entry is true exactly when bit 14 of its mode is set,
\* whatever the other bits of the mode are.
C15_IsDirIsBit14 ==
    \A p \in Procs :
        \A i \in DOMAIN ret[p].isDir :
            ret[p].isDir[i] <=> (ret[p].entries[i].Mode \div 16384) % 2 = 1

\* List returned a directory with permission bits and an entry with every bit
\* but bit 14 set, and the caller asked both.
C15_Witness ==
    \E p \in Procs :
        /\ Returned(p, "List")
        /\ Len(ret[p].isDir) = 2
        /\ ret[p].entries[1].Mode = 16384 + 493 /\ ret[p].isDir[1]
        /\ ret[p].entries[2].Mode = 2147483647 - 16384 /\ ~ret[p].isDir[2]

\* C11: whatever the interleaving of operations running at once on one Device,
\* the Connection an operation works on is one its own process opened, and no
\* other process's operation has called it or closed it.
C11_OwnConnectionOnly ==
    \A p \in Procs :
        conn[p].state # "none" =>
            /\ conn[p].owner = p
            /\ conn[p].users \subseteq {p}
            /\ conn[p].opens = 1

\* An executeCommand and a List are both under way, each on its own open
\* Connection with calls made on it.
C11_Witness ==
    /\ op[1] = "executeCommand" /\ pc[1] = "exec_verify"
    /\ op[2] = "List" /\ pc[2] = "list_read"
    /\ conn[1].state = "open" /\ conn[2].state = "open"
    /\ conn[1].users = {1} /\ conn[2].users = {2}
    /\ Len(conn[1].log) = 3 /\ Len(conn[2].log) > 3

\* C14: whenever the Connection ShellStream returned is closed while a line
\* read on it is waiting, that read eventually returns.
C14_ClosedReadTerminates ==
    \A p \in Procs :
        (conn[p].state = "closed" /\ conn[p].reader = "blocked") ~> (conn[p].reader # "blocked")

\* A read that was waiting on the open Connection has returned an error after
\* the caller closed the Connection.
C14_Witness ==
    \E p \in Procs :
        /\ Returned(p, "ShellStream") /\ ret[p].tp
        /\ conn[p].state = "closed"
        /\ conn[p].reader = "error"
        /\ conn[p].log[Len(conn[p].log)].call = "Close"
        /\ conn[p].log[Len(conn[p].log)].by = "caller"

====
